---- MODULE Spec2Model ----
(***************************************************************************)
(* tsh - a tiny shell with job control (src/tsh.c).                        *)
(*                                                                         *)
(* The model has three specifications over the same variables:             *)
(*   Spec       the shell: the request path (main/eval/do_bgfg/waitfg) as  *)
(*              a program counter, interrupted by sigchld_handler,         *)
(*              sigint_handler and sigtstp_handler, with the children as   *)
(*              the environment;                                           *)
(*   LateSpec   the same shell, picked up later in its run: after earlier  *)
(*              launches have filled the job table, or have left a job in  *)
(*              a slot other than jid-1;                                   *)
(*   TableSpec  the job-list helper routines (addjob, deletejob) called in *)
(*              any order with any arguments.                              *)
(***************************************************************************)
EXTENDS Integers, Sequences, FiniteSets, TLC

\* ---------------------------------------------------------------- bounds
\* MAXJOBS is 16 in src/tsh.c:19; the model runs the same code on a smaller
\* table.  4 is the smallest table in which nextjid can wrap to 1 while
\* handle 1 is live and a slot is free.
MAXJOBS == 4
\* handles are not bounded by the code (nextjid = maxjid+1 can grow for as
\* long as one job stays live); launches stop once nextjid exceeds MaxJid
MaxJid == 5
\* process ids the kernel hands out are 1..NPids
NPids == 2
\* the user types at most MaxCmds commands that launch a job or pass the
\* checks of bg/fg
MaxCmds == 2

\* ------------------------------------------------------- program constants
UNDEF == 0
FG == 1
BG == 2
ST == 3

Pids == 1..NPids
\* the pids of children launched before LateSpec starts; their programs
\* catch SIGINT and SIGTSTP and keep running for as long as the model looks
Steady == {20 + k : k \in 1..MAXJOBS}
Slots == 0..(MAXJOBS-1)
Cmds == {"a"}

\* what the user can type after bg/fg as a process id: the decimal numbers
\* of the pids and the two-digit numbers that end in one
Typed == Pids \cup {10 + p : p \in Pids}

VARIABLES
  jobs,      \* struct job_t jobs[MAXJOBS]
  nextjid,   \* int nextjid
  check_fg,  \* int check_fg
  pc,        \* where the request path (main -> eval -> do_bgfg/waitfg) is;
             \* "exited" once the shell process has ended, "spin" once a
             \* handler's kill(0, sig) keeps the shell in its own handler
  loc,       \* the request path's locals: eval's pid, is_bg, cmdline;
             \* do_bgfg's argv[0], selector form, the number in argv[1],
             \* arg, jid, pid; waitfg's pid
  proc,      \* the children: what the kernel knows of each process id
  chldPend,  \* SIGCHLD is pending for the shell
  blocked,   \* SIGCHLD is in the shell's signal mask (sigprocmask)
  hpc,       \* sigchld_handler: "idle", or "loop" inside its waitpid loop
  woken,     \* a handler has run since the request path entered pause()
  reaped,    \* sigchld_handler: the pids waitpid has returned in the
             \* firing that is under way
  ncmd,      \* how many launches and accepted bg/fg commands were typed
  call,      \* TableSpec only: the last job-list call and what it returned
  lastop,    \* TableSpec only: the last job-list call that returned 1
  scen       \* TableSpec only: progress along the handle-reuse scenario

vars == <<jobs, nextjid, check_fg, pc, loc, proc, chldPend,
          blocked, hpc, woken, reaped, ncmd, call, lastop, scen>>
shvars == <<check_fg, pc, loc, proc, chldPend, blocked, hpc, woken, reaped,
            ncmd>>
obsvars == <<ncmd, call, lastop, scen>>

\* ------------------------------------------------------ job list helpers
\* clearjob: the value of a cleared slot
clearjob == [pid |-> 0, jid |-> 0, state |-> UNDEF, cmdline |-> ""]

\* initjobs: every slot cleared
initjobs == [i \in Slots |-> clearjob]

RECURSIVE maxfrom(_, _, _)
maxfrom(J, i, max) ==
  IF i >= MAXJOBS THEN max
  ELSE maxfrom(J, i + 1, IF J[i].jid > max THEN J[i].jid ELSE max)

\* maxjid: largest allocated job ID
maxjid(J) == maxfrom(J, 0, 0)

\* index of the first slot whose pid is p, or -1 (the linear scans of
\* addjob, deletejob, getjobpid and pid2jid)
RECURSIVE scanpid(_, _, _)
scanpid(J, p, i) ==
  IF i >= MAXJOBS THEN -1
  ELSE IF J[i].pid = p THEN i ELSE scanpid(J, p, i + 1)

\* index of the first slot whose jid is j, or -1 (the scan of getjobjid)
RECURSIVE scanjid(_, _, _)
scanjid(J, j, i) ==
  IF i >= MAXJOBS THEN -1
  ELSE IF J[i].jid = j THEN i ELSE scanjid(J, j, i + 1)

\* addjob with the handle taken before a free slot is looked for
addjob_bump(J, nj, pid, state, cmdline) ==
  IF pid < 1 THEN [ret |-> 0, jobs |-> J, nextjid |-> nj]
  ELSE LET i == scanpid(J, 0, 0)
           n2 == IF nj + 1 > MAXJOBS THEN 1 ELSE nj + 1 IN
       IF i >= 0
       THEN [ret |-> 1,
             jobs |-> [J EXCEPT ![i] = [pid |-> pid, jid |-> nj,
                                        state |-> state, cmdline |-> cmdline]],
             nextjid |-> n2]
       ELSE [ret |-> 0, jobs |-> J, nextjid |-> n2]

\* addjob: result is the return value and the new jobs / nextjid
addjob(J, nj, pid, state, cmdline) ==
  IF pid < 1 THEN [ret |-> 0, jobs |-> J, nextjid |-> nj]
  ELSE LET i == scanpid(J, 0, 0) IN
       IF i >= 0
       THEN [ret |-> 1,
             jobs |-> [J EXCEPT ![i] = [pid |-> pid, jid |-> nj,
                                        state |-> state, cmdline |-> cmdline]],
             nextjid |-> IF nj + 1 > MAXJOBS THEN 1 ELSE nj + 1]
       ELSE [ret |-> 0, jobs |-> J, nextjid |-> nj]

\* deletejob that hands the freed handle to the next job
deletejob_reuse(J, nj, pid) ==
  IF pid < 1 THEN [ret |-> 0, jobs |-> J, nextjid |-> nj]
  ELSE LET i == scanpid(J, pid, 0) IN
       IF i >= 0
       THEN [ret |-> 1, jobs |-> [J EXCEPT ![i] = clearjob], nextjid |-> J[i].jid]
       ELSE [ret |-> 0, jobs |-> J, nextjid |-> nj]

\* deletejob that leaves nextjid alone
deletejob_stale(J, nj, pid) ==
  IF pid < 1 THEN [ret |-> 0, jobs |-> J, nextjid |-> nj]
  ELSE LET i == scanpid(J, pid, 0) IN
       IF i >= 0
       THEN [ret |-> 1, jobs |-> [J EXCEPT ![i] = clearjob], nextjid |-> nj]
       ELSE [ret |-> 0, jobs |-> J, nextjid |-> nj]

\* deletejob: result is the return value and the new jobs / nextjid
deletejob(J, nj, pid) ==
  IF pid < 1 THEN [ret |-> 0, jobs |-> J, nextjid |-> nj]
  ELSE LET i == scanpid(J, pid, 0) IN
       IF i >= 0
       THEN LET J2 == [J EXCEPT ![i] = clearjob] IN
            [ret |-> 1, jobs |-> J2, nextjid |-> maxjid(J2) + 1]
       ELSE [ret |-> 0, jobs |-> J, nextjid |-> nj]

\* fgpid: pid of the first slot in state FG, 0 if none
RECURSIVE fgfrom(_, _)
fgfrom(J, i) ==
  IF i >= MAXJOBS THEN 0
  ELSE IF J[i].state = FG THEN J[i].pid ELSE fgfrom(J, i + 1)

fgpid(J) == fgfrom(J, 0)

\* getjobpid: slot index of the job with that pid, -1 for NULL
getjobpid(J, pid) == IF pid < 1 THEN -1 ELSE scanpid(J, pid, 0)

\* getjobjid: slot index of the job with that jid, -1 for NULL
getjobjid(J, jid) == IF jid < 1 THEN -1 ELSE scanjid(J, jid, 0)

\* pid2jid: jid of the job with that pid, 0 if none
pid2jid(J, pid) ==
  IF pid < 1 THEN 0
  ELSE LET i == scanpid(J, pid, 0) IN IF i >= 0 THEN J[i].jid ELSE 0

\* ------------------------------------------------------------ the shell
noloc == [pid |-> 0, is_bg |-> FALSE, cmdline |-> "", cmd |-> "", form |-> "",
          typed |-> 0, arg |-> 0, jid |-> 0, wpid |-> 0]

\* main (src/tsh.c:119-130): handlers installed, initjobs, nothing launched
Init ==
  /\ jobs = initjobs
  /\ nextjid = 1
  /\ check_fg = 0
  /\ pc = "read"
  /\ loc = noloc
  /\ proc = [p \in Pids |-> "none"]
  /\ chldPend = FALSE
  /\ blocked = FALSE
  /\ hpc = "idle"
  /\ woken = FALSE
  /\ reaped = {}
  /\ ncmd = 0
  /\ call = [op |-> "none", ret |-> 0]
  /\ lastop = "none"
  /\ scen = 0

\* a signal the kernel delivers before the interrupted code runs on
ChldDeliverable == chldPend /\ ~blocked /\ hpc = "idle"

\* the shell process exists
Alive == pc # "exited"

\* the request path runs: the shell lives, no handler is on the stack and
\* no deliverable signal is pending
MainRuns == pc \notin {"exited", "spin"} /\ hpc = "idle" /\ ~ChldDeliverable

\* pause() returns once a handler has run while the caller was inside it
InPause == pc \in {"wf_in1", "wf_in2"}
Wake == IF InPause THEN TRUE ELSE woken

\* the request path is left for good: the shell process ends ("exited"), or
\* it stays in a handler that signals itself ("spin"); the request path's
\* locals are dead from then on
Leave(to) ==
  /\ pc' = to
  /\ loc' = noloc
  /\ woken' = FALSE

\* a process group with id p exists: the process has run setpgid(0,0) and
\* has not been reaped
HasGroup(p) ==
  \/ p \in Steady
  \/ p \in Pids /\ proc[p] \in {"run", "stopU", "stopR", "zexit", "zint", "zsig"}

\* the child's state change that waitpid(-1, WNOHANG|WUNTRACED) reports
Reportable(p) == proc[p] \in {"zexit", "zint", "zsig", "stopU"}

\* SIGCONT reaches the processes of group p: a stopped one runs again and
\* the kernel notifies the parent
ContProc(P, p) ==
  IF p \in Pids /\ P[p] \in {"stopU", "stopR"} THEN [P EXCEPT ![p] = "run"] ELSE P
ContNotifies(P, p) == p \in Pids /\ P[p] \in {"stopU", "stopR"}

\* a store through jobs[i] with i outside 0..MAXJOBS-1 lands in whatever the
\* build placed next to the array: nothing the shell reads again, check_fg,
\* or nextjid
OobStore(v) ==
  { [nextjid |-> nextjid, check_fg |-> check_fg],
    [nextjid |-> nextjid, check_fg |-> v],
    [nextjid |-> v, check_fg |-> check_fg] }

\* atoi(argv[1]+1): the number typed, read from its second character on
RECURSIVE Pow10(_)
Pow10(n) == IF n = 0 THEN 1 ELSE 10 * Pow10(n - 1)
RECURSIVE Digits(_)
Digits(n) == IF n < 10 THEN 1 ELSE 1 + Digits(n \div 10)
AtoiSkipFirst(form, n) ==
  IF form = "%" THEN n ELSE n % Pow10(Digits(n) - 1)

\* --------------------------------------------------- request path: eval
\* eval that goes on to fork without blocking SIGCHLD
eval_block_missing(is_bg, cmdline) ==
  /\ MainRuns /\ pc = "read"
  /\ nextjid <= MaxJid /\ ncmd < MaxCmds
  /\ blocked' = FALSE
  /\ loc' = [noloc EXCEPT !.is_bg = is_bg, !.cmdline = cmdline]
  /\ pc' = "fork"
  /\ ncmd' = ncmd + 1
  /\ UNCHANGED <<jobs, nextjid, check_fg, proc, chldPend, hpc, woken,
                 call, lastop, scen,
                 reaped>>

\* main reads a command that is not built in; eval blocks SIGCHLD
\* (sigprocmask(SIG_BLOCK)) before it forks
eval_block(is_bg, cmdline) ==
  /\ MainRuns /\ pc = "read"
  /\ nextjid <= MaxJid /\ ncmd < MaxCmds
  /\ blocked' = TRUE
  /\ loc' = [noloc EXCEPT !.is_bg = is_bg, !.cmdline = cmdline]
  /\ pc' = "fork"
  /\ ncmd' = ncmd + 1
  /\ UNCHANGED <<jobs, nextjid, check_fg, proc, chldPend, hpc, woken,
                 call, lastop, scen,
                 reaped>>

\* the pids fork() can return: a free pid that a slot of the table still
\* holds, or a free pid that appears nowhere in the shell's state; the
\* latter are interchangeable and the least stands for all of them
ForkPids ==
  LET free == {p \in Pids : proc[p] = "none"}
      known == {p \in free : \E i \in Slots : jobs[i].pid = p}
      fresh == free \ known IN
  known \cup {p \in fresh : \A q \in fresh : p <= q}

\* fork() returns the pid of a new child, which has not yet run setpgid
eval_fork(p) ==
  /\ MainRuns /\ pc = "fork"
  /\ p \in ForkPids
  /\ proc' = [proc EXCEPT ![p] = "new"]
  /\ loc' = [loc EXCEPT !.pid = p]
  /\ pc' = "addjob"
  /\ UNCHANGED <<jobs, nextjid, check_fg, chldPend, blocked, hpc, woken,
                 obsvars,
                 reaped>>

\* fork() fails: unix_error exits the shell
eval_fork_fails ==
  /\ MainRuns /\ pc = "fork"
  /\ Leave("exited")
  /\ UNCHANGED <<jobs, nextjid, check_fg, proc, chldPend, blocked, hpc,
                 obsvars,
                 reaped>>

\* addjob(jobs, pid, FG or BG, cmdline); its return value is not looked at
eval_addjob ==
  /\ MainRuns /\ pc = "addjob"
  /\ LET r == addjob(jobs, nextjid, loc.pid, IF loc.is_bg THEN BG ELSE FG,
                     loc.cmdline) IN
     /\ jobs' = r.jobs
     /\ nextjid' = r.nextjid
  /\ pc' = "unblock"
  /\ UNCHANGED <<check_fg, loc, proc, chldPend, blocked, hpc, woken, obsvars,
                 reaped>>

\* sigprocmask(SIG_UNBLOCK); a foreground launch goes on to waitfg(pid), a
\* background launch returns to main
eval_unblock ==
  /\ MainRuns /\ pc = "unblock"
  /\ blocked' = FALSE
  /\ IF loc.is_bg
     THEN pc' = "read" /\ loc' = noloc
     ELSE pc' = "wf_set" /\ loc' = [noloc EXCEPT !.wpid = loc.pid]
  /\ UNCHANGED <<jobs, nextjid, check_fg, proc, chldPend, hpc, woken, obsvars,
                 reaped>>

\* the built-in quit, or end of input: exit(0)
builtin_quit ==
  /\ MainRuns /\ pc = "read"
  /\ Leave("exited")
  /\ UNCHANGED <<jobs, nextjid, check_fg, proc, chldPend, blocked, hpc,
                 obsvars,
                 reaped>>

\* ------------------------------------------------- request path: waitfg
\* check_fg = 0
waitfg_reset ==
  /\ MainRuns /\ pc = "wf_set"
  /\ check_fg' = 0
  /\ pc' = "wf_call1"
  /\ UNCHANGED <<jobs, nextjid, loc, proc, chldPend, blocked, hpc, woken, obsvars,
                 reaped>>

\* the request path enters pause(): from here on a handler's return ends it
waitfg_pause ==
  /\ MainRuns /\ pc \in {"wf_call1", "wf_call2"}
  /\ woken' = FALSE
  /\ pc' = IF pc = "wf_call1" THEN "wf_in1" ELSE "wf_in2"
  /\ UNCHANGED <<jobs, nextjid, check_fg, loc, proc, chldPend, blocked, hpc, obsvars,
                 reaped>>

\* the first pause() has returned: if(!check_fg) pause(); else return
waitfg_test ==
  /\ MainRuns /\ pc = "wf_in1" /\ woken
  /\ woken' = FALSE
  /\ IF check_fg = 0
     THEN pc' = "wf_call2" /\ loc' = loc
     ELSE pc' = "read" /\ loc' = noloc
  /\ UNCHANGED <<jobs, nextjid, check_fg, proc, chldPend, blocked, hpc, obsvars,
                 reaped>>

\* the second pause() has returned: return
waitfg_return ==
  /\ MainRuns /\ pc = "wf_in2" /\ woken
  /\ woken' = FALSE
  /\ pc' = "read"
  /\ loc' = noloc
  /\ UNCHANGED <<jobs, nextjid, check_fg, proc, chldPend, blocked, hpc, obsvars,
                 reaped>>

\* ------------------------------------------------ request path: do_bgfg
\* do_bgfg that goes on to the command without the look-up of "%n"
do_bgfg_unchecked(cmd, form, n) ==
  /\ MainRuns /\ pc = "read"
  /\ LET arg == AtoiSkipFirst(form, n) IN
     IF form = "pid" /\ getjobpid(jobs, arg) = -1
     THEN /\ pc' = "bf_err"
          /\ loc' = [noloc EXCEPT !.form = form, !.typed = n, !.arg = arg]
          /\ UNCHANGED ncmd
     ELSE /\ ncmd < MaxCmds
          /\ pc' = "bf_kill"
          /\ loc' = [noloc EXCEPT !.cmd = cmd, !.form = form, !.typed = n,
                                  !.arg = arg]
          /\ ncmd' = ncmd + 1
  /\ UNCHANGED <<jobs, nextjid, check_fg, proc, chldPend, blocked, hpc, woken,
                 call, lastop, scen,
                 reaped>>

\* "bg"/"fg" with argument "%n" (form "%") or the number n (form "pid"):
\* arg = atoi(argv[1]+1) and the two look-ups that guard the command
do_bgfg_check(cmd, form, n) ==
  /\ MainRuns /\ pc = "read"
  /\ LET arg == AtoiSkipFirst(form, n) IN
     IF \/ form = "%" /\ getjobjid(jobs, arg) = -1
        \/ form = "pid" /\ getjobpid(jobs, arg) = -1
     THEN \* about to print "No such job" / "No such process"
          /\ pc' = "bf_err"
          /\ loc' = [noloc EXCEPT !.form = form, !.typed = n, !.arg = arg]
          /\ UNCHANGED ncmd
     ELSE /\ ncmd < MaxCmds
          /\ pc' = "bf_kill"
          /\ loc' = [noloc EXCEPT !.cmd = cmd, !.form = form, !.typed = n,
                                  !.arg = arg]
          /\ ncmd' = ncmd + 1
  /\ UNCHANGED <<jobs, nextjid, check_fg, proc, chldPend, blocked, hpc, woken,
                 call, lastop, scen,
                 reaped>>

\* printf("%%%d: No such job\n", arg) or printf("(%d): No such process\n",
\* arg); return
do_bgfg_error ==
  /\ MainRuns /\ pc = "bf_err"
  /\ pc' = "read"
  /\ loc' = noloc
  /\ UNCHANGED <<jobs, nextjid, check_fg, proc, chldPend, blocked, hpc, woken,
                 obsvars,
                 reaped>>

\* the pid that "%n" addresses: jobs[jid-1].pid, any value when jid-1 is
\* not an index of the array
PidAtIndex(jid) ==
  IF jid - 1 \in Slots THEN {jobs[jid - 1].pid} ELSE 0..NPids

\* jid = atoi(argv[1]+1); "%": kill(-(jobs[jid-1].pid), SIGCONT);
\* otherwise pid = jid, jid = pid2jid(pid), kill(-pid, SIGCONT)
do_bgfg_kill ==
  /\ MainRuns /\ pc = "bf_kill"
  /\ \E x \in (IF loc.form = "%" THEN PidAtIndex(loc.arg) ELSE {loc.arg}) :
       /\ proc' = ContProc(proc, x)
       /\ chldPend' = (chldPend \/ ContNotifies(proc, x))
       /\ loc' = [loc EXCEPT
                    !.jid = IF loc.form = "%" THEN loc.arg ELSE pid2jid(jobs, x),
                    \* fg: the outer pid, which the pid form leaves 0
                    !.pid = IF loc.form = "%" /\ loc.cmd = "fg" THEN x ELSE 0]
  /\ pc' = "bf_write"
  /\ UNCHANGED <<jobs, nextjid, check_fg, blocked, hpc, woken, obsvars,
                 reaped>>

\* jobs[jid-1].state = BG or FG; fg goes on to waitfg(pid)
do_bgfg_write ==
  /\ MainRuns /\ pc = "bf_write"
  /\ LET v == IF loc.cmd = "bg" THEN BG ELSE FG IN
     IF loc.jid - 1 \in Slots
     THEN /\ jobs' = [jobs EXCEPT ![loc.jid - 1].state = v]
          /\ UNCHANGED <<nextjid, check_fg>>
     ELSE /\ \E o \in OobStore(v) : nextjid' = o.nextjid /\ check_fg' = o.check_fg
          /\ UNCHANGED jobs
  /\ IF loc.cmd = "bg"
     THEN pc' = "read" /\ loc' = noloc
     ELSE pc' = "wf_set" /\ loc' = [noloc EXCEPT !.wpid = loc.pid]
  /\ UNCHANGED <<proc, chldPend, blocked, hpc, woken, obsvars,
                 reaped>>

\* ------------------------------------------------------------- handlers
\* SIGCHLD is delivered: check_fg = 0, then the waitpid loop
sigchld_handler_enter ==
  /\ Alive /\ ChldDeliverable
  /\ chldPend' = FALSE
  /\ check_fg' = 0
  /\ hpc' = "loop"
  /\ woken' = Wake
  /\ UNCHANGED <<jobs, nextjid, pc, loc, proc, blocked,
                 obsvars,
                 reaped>>

\* the value read as jobs[jid-1].state: any value when jid-1 is not an index
StateAtIndex(jid) ==
  IF jid - 1 \in Slots THEN {jobs[jid - 1].state} ELSE {UNDEF, FG, BG, ST}

\* one turn of the loop: waitpid returns p, one of the children whose state
\* changed; the handler looks at jobs[pid2jid(p)-1].state and then at status
sigchld_handler_reap(p) ==
  /\ Alive /\ hpc = "loop"
  /\ Reportable(p)
  /\ LET jid == pid2jid(jobs, p) IN
     \E st \in StateAtIndex(jid) :
       LET cf == IF st = FG THEN 1 ELSE check_fg IN
       CASE proc[p] \in {"zexit", "zint"} ->
              \* WIFEXITED, or WIFSIGNALED with WTERMSIG == SIGINT: deletejob
              LET r == deletejob(jobs, nextjid, p) IN
              /\ jobs' = r.jobs
              /\ nextjid' = r.nextjid
              /\ check_fg' = cf
              /\ proc' = [proc EXCEPT ![p] = "none"]
              /\ UNCHANGED pc
         [] proc[p] = "zsig" ->
              \* WIFSIGNALED with another signal: nothing is done
              /\ check_fg' = cf
              /\ proc' = [proc EXCEPT ![p] = "none"]
              /\ UNCHANGED <<jobs, nextjid, pc>>
         [] proc[p] = "stopU" ->
              \* WIFSTOPPED: getjobpid(jobs,pid)->state = ST; the shell dies
              \* of the store through NULL when the pid has no job
              LET i == getjobpid(jobs, p) IN
              /\ check_fg' = cf
              /\ proc' = [proc EXCEPT ![p] = "stopR"]
              /\ IF i >= 0
                 THEN jobs' = [jobs EXCEPT ![i].state = ST] /\ UNCHANGED pc
                 ELSE pc' = "exited" /\ UNCHANGED jobs
              /\ UNCHANGED nextjid
  /\ reaped' = reaped \cup {p}
  /\ UNCHANGED <<loc, chldPend, blocked, hpc, woken, obsvars>>

\* sigchld_handler with "if" in place of "while": it returns after one call
\* of waitpid
sigchld_handler_return_once ==
  /\ Alive /\ hpc = "loop"
  /\ reaped # {} \/ \A p \in Pids : ~Reportable(p)
  /\ hpc' = "idle"
  /\ reaped' = {}
  /\ UNCHANGED <<jobs, nextjid, check_fg, pc, loc, proc, chldPend, blocked, woken, obsvars>>

\* waitpid returns 0 or -1: no child has a state change left; return
sigchld_handler_return ==
  /\ Alive /\ hpc = "loop"
  /\ \A p \in Pids : ~Reportable(p)
  /\ hpc' = "idle"
  /\ reaped' = {}
  /\ UNCHANGED <<jobs, nextjid, check_fg, pc, loc, proc, chldPend, blocked, woken, obsvars>>

\* SIGINT is delivered (the user typed ctrl-c, or the SIGINT the handler sent
\* to itself is pending): kill(-fgpid(jobs), SIGINT).  With no foreground job
\* that is kill(0, SIGINT), which signals the shell's own group, the shell
\* included: the handler is entered again as soon as it returns.  A pid
\* without a process group makes kill fail and unix_error exits the shell.
sigint_handler ==
  /\ Alive
  /\ LET pid == fgpid(jobs) IN
     IF pid # 0 /\ HasGroup(pid)
     THEN pc' = pc /\ loc' = loc /\ woken' = Wake
     ELSE Leave(IF pid = 0 THEN "spin" ELSE "exited")
  /\ UNCHANGED <<jobs, nextjid, check_fg, proc, chldPend,
                 blocked, hpc, obsvars,
                 reaped>>

\* SIGTSTP is delivered (the user typed ctrl-z, or the SIGTSTP the handler
\* sent to itself is pending): pid = fgpid(jobs); kill(-pid, SIGTSTP);
\* jobs[pid2jid(pid)-1].state = ST
sigtstp_handler ==
  /\ Alive
  /\ LET pid == fgpid(jobs)
         jid == pid2jid(jobs, pid) IN
     IF pid = 0 \/ HasGroup(pid)
     THEN /\ IF pid = 0 THEN Leave("spin")
                       ELSE pc' = pc /\ loc' = loc /\ woken' = Wake
          /\ IF jid - 1 \in Slots
             THEN /\ jobs' = [jobs EXCEPT ![jid - 1].state = ST]
                  /\ UNCHANGED <<nextjid, check_fg>>
             ELSE /\ \E o \in OobStore(ST) :
                       nextjid' = o.nextjid /\ check_fg' = o.check_fg
                  /\ UNCHANGED jobs
     ELSE /\ Leave("exited")
          /\ UNCHANGED <<jobs, nextjid, check_fg>>
  /\ UNCHANGED <<proc, chldPend, blocked, hpc, obsvars,
                 reaped>>

\* ---------------------------------------------------------- environment
ChildChange(p, to) ==
  /\ proc' = [proc EXCEPT ![p] = to]
  /\ chldPend' = TRUE
  /\ UNCHANGED <<jobs, nextjid, check_fg, pc, loc, blocked, hpc, woken, obsvars,
                 reaped>>

\* the child runs setpgid(0,0) and goes on to execve
child_setpgid(p) ==
  /\ Alive /\ proc[p] = "new"
  /\ proc' = [proc EXCEPT ![p] = "run"]
  /\ UNCHANGED <<jobs, nextjid, check_fg, pc, loc, chldPend, blocked, hpc, woken, obsvars,
                 reaped>>

\* the child exits (its program ends, or execve failed and it calls exit(0))
child_exit(p) ==
  /\ Alive /\ proc[p] = "run"
  /\ ChildChange(p, "zexit")

\* the child is terminated by SIGINT ("zint") or by another signal ("zsig");
\* SIGINT does not act on a stopped process
child_killed(p, how) ==
  /\ Alive
  /\ \/ proc[p] \in {"new", "run"}
     \/ proc[p] \in {"stopU", "stopR"} /\ how = "zsig"
  /\ ChildChange(p, how)

\* the child is stopped by SIGTSTP or SIGSTOP
child_stop(p) ==
  /\ Alive /\ proc[p] = "run"
  /\ ChildChange(p, "stopU")

\* the stopped child receives SIGCONT from outside the shell
child_cont(p) ==
  /\ Alive /\ proc[p] \in {"stopU", "stopR"}
  /\ ChildChange(p, "run")

Next ==
  \/ \E b \in BOOLEAN, c \in Cmds : eval_block(b, c)
  \/ \E p \in Pids : eval_fork(p)
  \/ eval_fork_fails
  \/ eval_addjob
  \/ eval_unblock
  \/ builtin_quit
  \/ waitfg_reset
  \/ waitfg_pause
  \/ waitfg_test
  \/ waitfg_return
  \/ \E cmd \in {"bg", "fg"} :
       \/ \E n \in 1..(MaxJid + 1) : do_bgfg_check(cmd, "%", n)
       \/ \E n \in Typed : do_bgfg_check(cmd, "pid", n)
  \/ do_bgfg_error
  \/ do_bgfg_kill
  \/ do_bgfg_write
  \/ sigchld_handler_enter
  \/ \E p \in Pids : sigchld_handler_reap(p)
  \/ sigchld_handler_return
  \/ sigint_handler
  \/ sigtstp_handler
  \/ \E p \in Pids : child_setpgid(p)
  \/ \E p \in Pids : child_exit(p)
  \/ \E p \in Pids, how \in {"zint", "zsig"} : child_killed(p, how)
  \/ \E p \in Pids : child_stop(p)
  \/ \E p \in Pids : child_cont(p)

Spec == Init /\ [][Next]_vars

\* -------------------------------------------------------------- LateSpec
\* The job list after a history of background launches and reaped exits,
\* computed with addjob and deletejob as eval and sigchld_handler call them.
NoHistory == [ret |-> 0, jobs |-> initjobs, nextjid |-> 1]
Launched(h, pid) == addjob(h.jobs, h.nextjid, pid, BG, "a")
Reaped(h, pid) == deletejob(h.jobs, h.nextjid, pid)

\* "a &" typed k times with every child still running
RECURSIVE LaunchedAll(_)
LaunchedAll(k) == IF k = 0 THEN NoHistory ELSE Launched(LaunchedAll(k - 1), 20 + k)

\* the table is full
FullHistory == LaunchedAll(MAXJOBS)

\* "a &" typed MAXJOBS-1 times, the first child exits and is reaped, "a &"
\* again: the last job has handle MAXJOBS and is stored in slot 0, one slot
\* is free and nextjid has wrapped to 1
ReusedSlotHistory ==
  Launched(Reaped(LaunchedAll(MAXJOBS - 1), 21), 20 + MAXJOBS)

\* the shell at its prompt after one of these histories; every earlier
\* child that is not in the table has been reaped
InitLate ==
  /\ \E h \in {FullHistory, ReusedSlotHistory} :
       jobs = h.jobs /\ nextjid = h.nextjid
  /\ check_fg = 0
  /\ pc = "read"
  /\ loc = noloc
  /\ proc = [p \in Pids |-> "none"]
  /\ chldPend = FALSE
  /\ blocked = FALSE
  /\ hpc = "idle"
  /\ woken = FALSE
  /\ reaped = {}
  /\ ncmd = 0
  /\ call = [op |-> "none", ret |-> 0]
  /\ lastop = "none"
  /\ scen = 0

LateSpec == InitLate /\ [][Next]_vars

\* ------------------------------------------------------------- TableSpec
\* The observer of the call sequence "from an empty table: addjob, addjob,
\* addjob, deletejob of handle 2, addjob".  scen = k (1..5) when the calls
\* that returned 1 since the table was last empty are exactly the first k
\* calls of that sequence, 0 when the table is empty, and -1 otherwise.
ScenStep(s, op, jid) ==
  CASE op = "add" /\ s \in {0, 1, 2, 4} -> s + 1
    [] op = "del" /\ s = 3 /\ jid = 2 -> 4
    [] OTHER -> -1

\* the pid arguments of the calls: one that is rejected and two that differ
TPids == {0, 1, 2}

\* a call addjob(jobs, pid, state, cmdline)
TAddjob(pid, state, cmdline) ==
  /\ nextjid <= MaxJid
  /\ LET r == addjob(jobs, nextjid, pid, state, cmdline) IN
     /\ jobs' = r.jobs
     /\ nextjid' = r.nextjid
     /\ call' = [op |-> "add", ret |-> r.ret]
     /\ lastop' = IF r.ret = 1 THEN "add" ELSE lastop
     /\ scen' = IF r.ret = 1 THEN ScenStep(scen, "add", nextjid) ELSE scen
  /\ UNCHANGED shvars

\* a call deletejob(jobs, pid)
TDeletejob(pid) ==
  /\ LET r == deletejob(jobs, nextjid, pid) IN
     /\ jobs' = r.jobs
     /\ nextjid' = r.nextjid
     /\ call' = [op |-> "del", ret |-> r.ret]
     /\ lastop' = IF r.ret = 1 THEN "del" ELSE lastop
     /\ scen' = IF r.ret = 0 THEN scen
                ELSE IF r.jobs = initjobs THEN 0
                ELSE ScenStep(scen, "del", pid2jid(jobs, pid))
  /\ UNCHANGED shvars

TNext ==
  \/ \E pid \in TPids, c \in Cmds : TAddjob(pid, BG, c)
  \/ \E pid \in TPids : TDeletejob(pid)

TableSpec == Init /\ [][TNext]_vars

\* ================================================================ claims
Occupied(J) == {i \in Slots : J[i].pid # 0}
Handles(J) == {J[i].jid : i \in Occupied(J)}
MaxOf(S) == IF S = {} THEN 0 ELSE CHOOSE m \in S : \A x \in S : x <= m
Full(J) == Occupied(J) = Slots
\* the slots a step has filled
Filled == {i \in Slots : jobs[i].pid = 0 /\ jobs'[i].pid # 0}

\* C6: no two occupied slots of the job table have the same jid.
C6_UniqueJids ==
  \A i, j \in Occupied(jobs) : i # j => jobs[i].jid # jobs[j].jid

\* C7 (as stated): from an empty table, after three registrations (handles
\* 1, 2, 3) and the release of handle 2, the next registered job receives
\* handle 2.
C7_ReusesHandle2 ==
  /\ scen = 3 => Handles(jobs) = {1, 2, 3}
  /\ scen = 5 => Handles(jobs) = {1, 3, 2}

\* C7 (amended): from an empty table, after three registrations (handles
\* 1, 2, 3) and the release of handle 2, the next registered job receives
\* handle 4, the largest remaining handle plus one; it is stored in the slot
\* that handle 2 freed.
C7_NextHandleIs4 ==
  /\ scen = 3 => Handles(jobs) = {1, 2, 3}
  /\ scen = 4 => Handles(jobs) = {1, 3}
  /\ scen = 5 => Handles(jobs) = {1, 3, 4} /\ jobs[1].jid = 4

C7_Witness == scen = 5 /\ Full(jobs) = FALSE /\ jobs[1].pid # 0

\* C8: right after a deletejob that returned 1, nextjid is the largest jid
\* among the remaining occupied slots plus one (1 when the table is empty),
\* and the next addjob that returns 1 gives its job exactly that jid.
C8_DeleteResetsNextjid ==
  [][ /\ (call'.op = "del" /\ call'.ret = 1 /\ jobs' # jobs)
           => nextjid' = MaxOf(Handles(jobs')) + 1
      /\ (lastop = "del" /\ lastop' = "add")
           => /\ Cardinality(Filled) = 1
              /\ \A i \in Filled : jobs'[i].jid = MaxOf(Handles(jobs)) + 1
    ]_vars

C8_Witness ==
  /\ lastop = "add" /\ call = [op |-> "add", ret |-> 1]
  /\ \E i \in Occupied(jobs) : jobs[i].jid > MAXJOBS

\* C10: addjob called when every slot is occupied returns 0 and leaves the
\* job table and nextjid as they were.
C10_FullTableUnchanged ==
  [][ (Full(jobs) /\ call'.op = "add")
        => (call'.ret = 0 /\ jobs' = jobs /\ nextjid' = nextjid) ]_vars

C10_Witness == Full(jobs) /\ call = [op |-> "add", ret |-> 0]

\* ------------------------------------------------------ claims on Spec
Zombie == {"zexit", "zint", "zsig"}

\* C1: in every reachable state at most one slot of the job table has
\* state FG.
C1_AtMostOneFG == Cardinality({i \in Slots : jobs[i].state = FG}) <= 1

\* C2: waitfg(pid) returns only when no job with that pid has state FG any
\* more, however many handler firings that do not release the job wake it.
C2_ReturnsOnlyWhenReleased ==
  [][ (pc \in {"wf_in1", "wf_in2"} /\ pc' = "read")
        => \A i \in Slots :
             ~(loc.wpid # 0 /\ jobs'[i].pid = loc.wpid /\ jobs'[i].state = FG)
    ]_vars

\* C3: once sigchld_handler has reaped the termination or the stop of the
\* job waitfg waits for, waitfg returns without any further signal: the
\* request path is never left suspended in pause() with that change reaped,
\* no handler running and no SIGCHLD pending.
C3_NoLostWakeup ==
  ~( /\ pc \in {"wf_in1", "wf_in2"} /\ ~woken
     /\ hpc = "idle" /\ ~chldPend
     /\ loc.wpid \in Pids /\ proc[loc.wpid] \in {"none", "stopR"} )

\* C4: from the sigprocmask(SIG_BLOCK) before fork until the
\* sigprocmask(SIG_UNBLOCK) after addjob, SIGCHLD is blocked and
\* sigchld_handler does not run, so the launched child is not reaped before
\* addjob has run for it.
C4_BlockedAcrossRegistration ==
  /\ pc \in {"fork", "addjob", "unblock"} => (blocked /\ hpc = "idle")
  /\ pc = "addjob" => proc[loc.pid] # "none"

\* the child has already terminated while eval is between fork and addjob
C4_Witness ==
  /\ pc = "addjob" /\ chldPend /\ blocked
  /\ proc[loc.pid] \in Zombie

\* C5: after sigchld_handler reaps a terminated child - exited or killed by
\* any signal - no slot of the job table holds that child's pid.
C5_ReapedJobIsGone ==
  [][ \A p \in Pids :
        (proc[p] \in Zombie /\ proc'[p] = "none")
          => \A i \in Slots : jobs'[i].pid # p ]_vars

\* C9: right after eval's addjob filled a slot for pid, getjobpid(pid) is
\* that slot, holding the state and cmdline given; right after the
\* handler's deletejob(pid) returned 1, getjobpid(pid) is NULL.
C9_FindAfterAddAndDelete ==
  [][ /\ (pc = "addjob" /\ pc' = "unblock" /\ Filled # {})
           => LET i == getjobpid(jobs', loc.pid) IN
              /\ i \in Filled
              /\ jobs'[i].state = (IF loc.is_bg THEN BG ELSE FG)
              /\ jobs'[i].cmdline = loc.cmdline
      /\ \A p \in Pids :
           (hpc = "loop" /\ proc[p] \in {"zexit", "zint"} /\ proc'[p] = "none"
              /\ getjobpid(jobs, p) >= 0)
             => getjobpid(jobs', p) = -1
    ]_vars

\* ------------------------------------------------- claims on LateSpec
\* waitfg(pid) waits for a child that was launched on a full table, has
\* terminated and has been reaped
UntrackedReaped ==
  /\ Full(jobs)
  /\ loc.wpid \in Pids /\ proc[loc.wpid] = "none"
  /\ getjobpid(jobs, loc.wpid) = -1

\* C11: a foreground launch on a full job table leaves the table and nextjid
\* as they were, so does the reaping of the untracked child, and when the
\* handler that reaped the terminated child has woken waitfg, waitfg returns
\* to the prompt instead of pausing again.
C11_FullTableLaunchReturns ==
  [][ /\ (pc = "addjob" /\ pc' = "unblock" /\ Full(jobs))
           => (jobs' = jobs /\ nextjid' = nextjid)
      /\ \A p \in Pids :
           (hpc = "loop" /\ proc[p] \in Zombie /\ proc'[p] = "none"
              /\ getjobpid(jobs, p) = -1)
             => (jobs' = jobs /\ nextjid' = nextjid)
      /\ (pc = "wf_in1" /\ pc' \in {"read", "wf_call2"} /\ UntrackedReaped)
           => pc' = "read"
    ]_vars

\* C12: bg/fg with "%n" when no occupied slot has jid n goes to the "No such
\* job" message for n and from there back to the prompt; neither step sends
\* a signal, enters waitfg or changes the job table or nextjid.  When some
\* occupied slot has jid n the message is not printed.
C12_NoSuchJobIsInert ==
  [][ /\ (pc = "read" /\ pc' \in {"bf_err", "bf_kill"} /\ loc'.form = "%")
           => /\ (pc' = "bf_err")
                    <=> (\A i \in Occupied(jobs) : jobs[i].jid # loc'.typed)
              /\ loc'.arg = loc'.typed
              /\ jobs' = jobs /\ nextjid' = nextjid
              /\ proc' = proc /\ chldPend' = chldPend
      /\ (pc = "bf_err" /\ loc.form = "%" /\ pc' \notin {pc, "exited", "spin"})
           => /\ pc' = "read"
              /\ jobs' = jobs /\ nextjid' = nextjid
              /\ proc' = proc /\ chldPend' = chldPend
    ]_vars

\* "%n" is refused although slot n-1 holds a job
C12_Witness ==
  /\ pc = "bf_err" /\ loc.form = "%"
  /\ loc.arg - 1 \in Occupied(jobs)
  /\ \A i \in Occupied(jobs) : jobs[i].jid # loc.arg

\* C13: for "bg %n" / "fg %n" where a live job J has jid n, SIGCONT goes to
\* the process group of J.pid and exactly J's state becomes BG or FG, every
\* other slot staying as it was - wherever in the table J is stored.
C13_ResumeHitsTheJob ==
  [][ LET i == getjobjid(jobs, loc.arg) IN
      /\ (pc = "bf_kill" /\ pc' = "bf_write" /\ loc.form = "%" /\ i >= 0)
           => PidAtIndex(loc.arg) = {jobs[i].pid}
      /\ (pc = "bf_write" /\ pc' \in {"read", "wf_set"} /\ loc.form = "%"
             /\ i >= 0)
           => jobs' = [jobs EXCEPT
                         ![i].state = IF loc.cmd = "bg" THEN BG ELSE FG]
    ]_vars

\* C14: for "bg P" / "fg P" with a process id P, the number looked up is P
\* as typed: the command goes ahead when an occupied slot has pid P, on the
\* job in that slot, and prints "No such process" for P otherwise.
C14_PidLookedUpAsTyped ==
  [][ (pc = "read" /\ pc' \in {"bf_err", "bf_kill"} /\ loc'.form = "pid")
        => /\ loc'.arg = loc'.typed
           /\ (pc' = "bf_kill")
                 <=> (\E i \in Occupied(jobs) : jobs[i].pid = loc'.typed)
    ]_vars

\* C15: sigint_handler or sigtstp_handler firing while no job has state FG
\* sends no signal to the shell's own process group, writes nothing and
\* leaves the shell running.
C15_NoFgRelayIsNoop ==
  [][ (fgpid(jobs) = 0 /\ pc' = "spin")
        => (pc = "spin" /\ jobs' = jobs /\ nextjid' = nextjid
              /\ check_fg' = check_fg) ]_vars

\* the step is fork() failing in eval
ForkFailed == pc = "fork" /\ pc' = "exited"

\* the step is kill() failing in sigint_handler or sigtstp_handler while the
\* request path is past the prompt
RelayFailed ==
  /\ pc \notin {"exited", "read", "fork"} /\ pc' = "exited"
  /\ fgpid(jobs) # 0 /\ ~HasGroup(fgpid(jobs))
  /\ proc' = proc

\* C16: neither a failing fork in eval nor a failing kill in sigint_handler
\* or sigtstp_handler ends the shell process.
C16_FailuresAreNotFatal ==
  [][ ~ForkFailed /\ ~RelayFailed ]_vars

\* C17: the process of every job in the job table has run setpgid(0,0): its
\* process-group id is its pid.
C17_GroupSetWhenTracked ==
  \A i \in Occupied(jobs) :
    jobs[i].pid \in Pids => proc[jobs[i].pid] # "new"

\* C18: the state of a job that stays in its slot changes only along
\* FG -> ST, ST -> FG, ST -> BG and BG -> FG.
C18_AllowedTransitions ==
  [][ \A i \in Slots :
        (jobs[i].pid # 0 /\ jobs'[i].pid = jobs[i].pid
           /\ jobs'[i].state # jobs[i].state)
          => <<jobs[i].state, jobs'[i].state>>
               \in {<<FG, ST>>, <<ST, FG>>, <<ST, BG>>, <<BG, FG>>} ]_vars

\* the job that do_bgfg's look-up found is still in the job table
StillSelected ==
  IF loc.form = "%" THEN getjobjid(jobs, loc.arg) >= 0
                    ELSE getjobpid(jobs, loc.arg) >= 0

\* C19: between do_bgfg's look-up and its kill and state assignment
\* sigchld_handler does not delete the selected job, so do_bgfg does not
\* send SIGCONT to process group 0 and does not write a state into an empty
\* slot.
C19_BgfgAtomic ==
  [][ /\ (pc \in {"bf_kill", "bf_write"} /\ pc' = pc) => StillSelected'
      /\ (pc = "bf_kill" /\ pc' = "bf_write" /\ loc.form = "%")
           => 0 \notin PidAtIndex(loc.arg)
      /\ (pc = "bf_write" /\ pc' \in {"read", "wf_set"})
           => loc.jid - 1 \in Occupied(jobs)
    ]_vars

\* sigchld_handler's loop takes the state change of child p from waitpid
ReapStep(p) ==
  /\ hpc = "loop"
  /\ \/ proc[p] \in Zombie /\ proc'[p] = "none"
     \/ proc[p] = "stopU" /\ proc'[p] = "stopR"

\* C20: in a firing of sigchld_handler each reaped pid sets check_fg to 1
\* exactly when the table entry of that pid has state FG, and leaves it as
\* it is otherwise - wherever in the table the entry is stored.
C20_CheckFgFromOwnEntry ==
  [][ \A p \in Pids :
        ReapStep(p)
          => LET i == getjobpid(jobs, p) IN
             check_fg' = IF i >= 0 /\ jobs[i].state = FG THEN 1 ELSE check_fg
    ]_vars

C22_StopOnlySetsState ==
  [][ \A p \in Pids :
        (hpc = "loop" /\ proc[p] = "stopU" /\ proc'[p] = "stopR"
           /\ getjobpid(jobs, p) >= 0)
          => /\ nextjid' = nextjid
             /\ \A i \in Slots :
                  jobs'[i] = IF jobs[i].pid = p
                             THEN [jobs[i] EXCEPT !.state = ST]
                             ELSE jobs[i]
    ]_vars

\* a step overwrites a word outside the job table: check_fg receives a job
\* state, or nextjid changes although no slot was filled or cleared
StoreOutside ==
  /\ jobs' = jobs
  /\ check_fg' \notin {check_fg, 0, 1} \/ nextjid' # nextjid

\* C23: every access jobs[jid-1] of sigchld_handler, sigtstp_handler and
\* do_bgfg has jid-1 in 0..MAXJOBS-1, so none of them stores outside the
\* job table.
C23_IndexInRange ==
  [][ /\ \A p \in Pids : ReapStep(p) => pid2jid(jobs, p) - 1 \in Slots
      /\ (pc = "bf_kill" /\ pc' = "bf_write" /\ loc.form = "%")
           => loc.arg - 1 \in Slots
      /\ (pc = "bf_write" /\ pc' \in {"read", "wf_set"})
           => loc.jid - 1 \in Slots
      /\ ~StoreOutside
    ]_vars
====
